---- MODULE Spec2Model ----
(***************************************************************************)
(* Webhook ingestion, response synthesis and real-time fan-out of the      *)
(* webhook testing site (server/routes.ts, server/storage.ts).             *)
(*                                                                         *)
(* JavaScript values are dynamically typed; a value is modelled as a pair  *)
(* <<tag, payload>> so that truthiness (the || and ?: of the source) is    *)
(* computed as JavaScript computes it.  A database table is the sequence   *)
(* of its rows in insertion order.  The storage driver is better-sqlite3   *)
(* (server/db.ts): every awaited storage call settles without returning    *)
(* to the event loop, so one HTTP handler or one socket message handler    *)
(* is one atomic step.                                                     *)
(***************************************************************************)
EXTENDS Integers, Sequences, FiniteSets, Bags, TLC

VARIABLES endpoints, requests, now, sockets, rooms, inbox, reply,
          forwards, rateLimitStore, rateLimitHeaders, passedOn,
          emitted, consumed, fetches, queryCache, localStorage

vars == <<endpoints, requests, now, sockets, rooms, inbox, reply,
          forwards, rateLimitStore, rateLimitHeaders, passedOn,
          emitted, consumed, fetches, queryCache, localStorage>>

\* The state of the socket clients: the join message each connection has
\* emitted and the events its handler has taken; and of the dashboard page:
\* the history responses on their way to it, its query cache and its
\* localStorage entry for the webhook.
clients == <<emitted, consumed, fetches, queryCache, localStorage>>

\* The state of the rate limiting middleware: its store, the X-RateLimit
\* headers it set on the response of the last request, and how many requests
\* of each key it passed on in the previous and in the current half hour.
limiter == <<rateLimitStore, rateLimitHeaders, passedOn>>

----------------------------------------------------------------------------
(* Bounds of the model. *)

MaxStored == 2
MaxNow == 1
MaxInbox == 2
MaxFetches == 1
MaxElapsed == 1

----------------------------------------------------------------------------
(* JavaScript values. *)

Undefined == <<"undef", 0>>
Null == <<"null", 0>>
Num(n) == <<"num", n>>
Str(s) == <<"str", s>>
Bool(b) == <<"bool", b>>
Obj(entries) == <<"obj", entries>>
Date(t) == <<"date", t>>

\* JSON.stringify(v): a text that is the encoding of v.  The text is itself
\* a (non-empty) JavaScript string, so encoding it again nests.
JSONstringify(v) == <<"json", v>>

\* JSON.parse(text): the value a JSON text encodes.
JSONparse(text) == text[2]

\* ToBoolean(v) is false: undefined, null, 0, "", false.
Falsy(v) ==
    \/ v[1] \in {"undef", "null"}
    \/ v[1] = "num" /\ v[2] = 0
    \/ v[1] = "str" /\ v[2] = ""
    \/ v[1] = "bool" /\ v[2] = FALSE

\* a || b
OrElse(a, b) == IF Falsy(a) THEN b ELSE a

\* typeof v === 'string': a string literal or a JSON text.
IsString(v) == v[1] \in {"str", "json"}

----------------------------------------------------------------------------
(* Universes the inputs are drawn from. *)

EndpointIds == {"e1", "e2"}
Slugs == {"s1", "s2"}
RequestIds == {"r1", "r2", "r3"}
Sockets == {"c1", "c2"}
Methods == {"POST"}

DefaultMaxRequests == 100
DefaultStatus == 200
ListLimit == 100

\* The payload ceiling the implementation summary documents (10 MB).
BodyCeiling == 10485760

\* req.body as the handler sees it: absent, {"a":1}, or a JSON value whose
\* encoding is longer than the documented ceiling.
SmallBody == Obj(<< <<"a", Num(1)>> >>)
BigBody == Obj(<< <<"blob", Str("...")>> >>)
Bodies == {Undefined, SmallBody, BigBody}

\* JSON.stringify(body).length
JsonLength(v) ==
    IF v = SmallBody THEN 7
    ELSE IF v = BigBody THEN BodyCeiling + 1
    ELSE 0

\* Header names that are not valid HTTP tokens: setHeader throws on them.
InvalidHeaderNames == {"bad name"}

\* req.originalUrl of an ingestion, a non-empty string.
OriginalUrl(slug) == <<"url", slug>>

\* The header names of which a repeated line is dropped when req.headers
\* is built (the ones that occur in the inputs).
DiscardedDuplicates == {"authorization", "content-type", "user-agent"}

\* A header line is entered into req.headers: a new name is added, the
\* value of a repeated name is dropped for the names above and otherwise
\* joined to the value already there with ", ".
AddHeaderLine(entries, name, value) ==
    IF \E i \in 1..Len(entries) : entries[i][1] = name
    THEN IF name \in DiscardedDuplicates THEN entries
         ELSE LET i == CHOOSE j \in 1..Len(entries) : entries[j][1] = name
              IN  [entries EXCEPT ![i] =
                      <<name, Str(entries[i][2][2] \o ", " \o value)>>]
    ELSE Append(entries, <<name, Str(value)>>)

RECURSIVE HeaderEntries(_)
HeaderEntries(rawHeaders) ==
    IF rawHeaders = <<>> THEN <<>>
    ELSE LET last == rawHeaders[Len(rawHeaders)]
         IN  AddHeaderLine(
                 HeaderEntries(SubSeq(rawHeaders, 1, Len(rawHeaders) - 1)),
                 last[1], last[2])

\* req.headers for the header lines of a request, names in lower case.
IncomingHeaders(rawHeaders) == Obj(HeaderEntries(rawHeaders))

\* The header lines and req.query of the ingestions that name none.
PlainHeaderLines == << <<"content-type", "application/json">> >>
ReqHeaders == IncomingHeaders(PlainHeaderLines)
ReqQuery == Obj(<< <<"x", Str("1")>> >>)

\* The second command line argument of the tunnel agent.
LocalPort == "3000"

\* How the outbound call of the agent may settle: a 2xx response, or a
\* rejection of the promise.
Outcomes == {"ok", "refused", "timeout", "status"}

\* anonymousRateLimit: windowMs, maxRequests and message.
WindowMs == 60 * 60 * 1000
MaxRequests == 100
LimitMessage == "Anonymous users are limited to 100 requests per hour"

\* The step of the clock in the specification of the rate limiter, and how
\* many steps it takes.
HalfHourMs == 30 * 60 * 1000
MaxHalfHours == 3

\* How many encodings of the stored response headers are explored.
MaxEncodings == 3

\* The highest count of a window that is explored.
MaxCount == 102

\* The keys the rate limiter counts by: req.ip of the callers.
ClientKeys == {"ip1"}

GoodHeaders == Obj(<< <<"X-A", Str("1")>> >>)
BadNameHeaders == Obj(<< <<"X-A", Str("1")>>, <<"bad name", Str("2")>> >>)

----------------------------------------------------------------------------
(* Storage (server/storage.ts). *)

\* parseInt(v, 10) on the status values a client sends.
ParseInt(v) ==
    IF v[1] = "num" THEN v
    ELSE IF v[1] = "digits" THEN Num(v[2])
    ELSE IF v = Str("201") THEN Num(201)
    ELSE IF v = Str("0") THEN Num(0)
    ELSE Null

\* The rows a select ... limit(1) returns; <<>> models result[0] undefined.
getEndpoint(id) ==
    LET result == SelectSeq(endpoints, LAMBDA e : e.id = id)
    IN  IF result = <<>> THEN <<>> ELSE <<result[1]>>

getEndpointBySlug(slug) ==
    LET result == SelectSeq(endpoints, LAMBDA e : e.uniqueSlug = slug)
    IN  IF result = <<>> THEN <<>> ELSE <<result[1]>>

\* The row createEndpoint builds from the (partial) options.
\* object.name: the property of the object, undefined when the object has
\* no property of that name.
Property(request, name) ==
    IF name \in DOMAIN request THEN request[name] ELSE Undefined

\* The public slug is taken from the same UUID as the id.
NewEndpointSlugFromId(options, id, uniqueSlug) ==
    [ id |-> id,
      uniqueSlug |-> id,
      expiresAt |-> OrElse(options.expiresAt, Null),
      maxRequests |-> OrElse(options.maxRequests, Num(DefaultMaxRequests)),
      responseStatus |-> OrElse(options.responseStatus, Num(DefaultStatus)),
      responseHeaders |-> IF Falsy(options.responseHeaders) THEN Null
                          ELSE JSONstringify(options.responseHeaders),
      responseBody |-> OrElse(options.responseBody, Null),
      isActive |-> IF options.isActive # Undefined THEN options.isActive
                   ELSE Bool(TRUE),
      createdAt |-> Date(now),
      updatedAt |-> Date(now),
      userId |-> OrElse(Property(options, "userId"), Null) ]

NewEndpoint(options, id, uniqueSlug) ==
    [ id |-> id,
      uniqueSlug |-> uniqueSlug,
      expiresAt |-> OrElse(options.expiresAt, Null),
      maxRequests |-> OrElse(options.maxRequests, Num(DefaultMaxRequests)),
      responseStatus |-> OrElse(options.responseStatus, Num(DefaultStatus)),
      responseHeaders |-> IF Falsy(options.responseHeaders) THEN Null
                          ELSE JSONstringify(options.responseHeaders),
      responseBody |-> OrElse(options.responseBody, Null),
      isActive |-> IF options.isActive # Undefined THEN options.isActive
                   ELSE Bool(TRUE),
      createdAt |-> Date(now),
      updatedAt |-> Date(now),
      userId |-> OrElse(Property(options, "userId"), Null) ]

\* Only the primary key is enforced: the slug column is not unique.
EndpointInsertFailsOnId(row) ==
    \E i \in 1..Len(endpoints) : endpoints[i].id = row.id

\* The insert violates the primary key (id) or the unique slug constraint.
EndpointInsertFails(row) ==
    \E i \in 1..Len(endpoints) :
        \/ endpoints[i].id = row.id
        \/ endpoints[i].uniqueSlug = row.uniqueSlug

\* The updates object of updateEndpointResponse: updatedAt always, a response
\* field only when it is not undefined.
Updates(response, date) ==
    LET keys == {"updatedAt"}
                \cup (IF response.responseStatus # Undefined
                      THEN {"responseStatus"} ELSE {})
                \cup (IF response.responseHeaders # Undefined
                      THEN {"responseHeaders"} ELSE {})
                \cup (IF response.responseBody # Undefined
                      THEN {"responseBody"} ELSE {})
    IN  [ k \in keys |->
            CASE k = "updatedAt" -> Date(date)
              [] k = "responseStatus" -> response.responseStatus
              [] k = "responseHeaders" ->
                     JSONstringify(response.responseHeaders)
              [] k = "responseBody" -> response.responseBody ]

\* A response field that is not in the updates is reset to null.
SpreadOverwrites(endpoint, updates) ==
    [ k \in DOMAIN endpoint |->
        IF k \in DOMAIN updates THEN updates[k]
        ELSE IF k \in {"responseStatus", "responseHeaders", "responseBody"}
        THEN Null
        ELSE endpoint[k] ]

\* Supplying the status the endpoint already has resets it to the default.
SpreadResetsRepeated(endpoint, updates) ==
    [ k \in DOMAIN endpoint |->
        IF k \notin DOMAIN updates THEN endpoint[k]
        ELSE IF k = "responseStatus" /\ updates[k] = endpoint[k]
        THEN Num(DefaultStatus)
        ELSE updates[k] ]

\* { ...endpoint, ...updates }, which is also the row the update leaves.
Spread(endpoint, updates) ==
    [ k \in DOMAIN endpoint |->
        IF k \in DOMAIN updates THEN updates[k] ELSE endpoint[k] ]

\* The merged row updateEndpointResponse writes and returns.
updateEndpointResponse(endpoint, response) ==
    Spread(endpoint, Updates(response, now))

\* The row createRequest builds.
createRequest(insertRequest, id) ==
    [ id |-> id,
      endpointId |-> insertRequest.endpointId,
      method |-> insertRequest.method,
      path |-> OrElse(insertRequest.path, Null),
      timestamp |-> now,
      queryParams |-> IF ~Falsy(insertRequest.queryParams)
                      THEN JSONstringify(insertRequest.queryParams)
                      ELSE Null,
      headers |-> IF IsString(insertRequest.headers)
                  THEN insertRequest.headers
                  ELSE JSONstringify(insertRequest.headers),
      body |-> OrElse(insertRequest.body, Null),
      bodySize |-> OrElse(insertRequest.bodySize, Null),
      processingTimeMs |-> OrElse(insertRequest.processingTimeMs, Null) ]

\* The insert is lost: the row never reaches the table.
InsertRequestLost(rows, request) == rows

\* The new row is stored ahead of the rows stored earlier.
InsertRequestFirst(rows, request) == <<request>> \o rows

\* db.insert(requests).values(request)
InsertRequest(rows, request) == Append(rows, request)

\* The insert violates the primary key of the requests table.
RequestInsertFails(id) == \E i \in 1..Len(requests) : requests[i].id = id

\* Stable insertion of a row into a list ordered by descending timestamp.
RECURSIVE InsertDesc(_, _)
InsertDesc(row, sorted) ==
    IF sorted = <<>> THEN <<row>>
    ELSE IF Head(sorted).timestamp >= row.timestamp
         THEN <<Head(sorted)>> \o InsertDesc(row, Tail(sorted))
         ELSE <<row>> \o sorted

RECURSIVE OrderByTimestampDesc(_)
OrderByTimestampDesc(rows) ==
    IF rows = <<>> THEN <<>>
    ELSE InsertDesc(rows[Len(rows)],
                    OrderByTimestampDesc(SubSeq(rows, 1, Len(rows) - 1)))

Limit(rows, n) == SubSeq(rows, 1, IF Len(rows) < n THEN Len(rows) ELSE n)

\* The orders in which "order by timestamp desc" may return the rows: rows
\* of one timestamp come in any order, since the statement names no other
\* sort key.
TimestampDescOrders(rows) ==
    { order \in [1..Len(rows) -> 1..Len(rows)] :
        /\ \A i, j \in 1..Len(rows) : i # j => order[i] # order[j]
        /\ \A i, j \in 1..Len(rows) :
              i < j => rows[order[i]].timestamp >= rows[order[j]].timestamp }

\* The row sequences the history query may return for an endpoint.
Listings(endpointId) ==
    LET rows == SelectSeq(requests, LAMBDA r : r.endpointId = endpointId)
    IN  { Limit([i \in 1..Len(rows) |-> rows[order[i]]], ListLimit) :
            order \in TimestampDescOrders(rows) }

\* select ... where endpointId = ? order by timestamp desc limit 100, in the
\* order that keeps rows of one timestamp as they were inserted.
getRequests(endpointId) ==
    Limit(OrderByTimestampDesc(
              SelectSeq(requests, LAMBDA r : r.endpointId = endpointId)),
          ListLimit)

\* The delete statement has no where clause.
deleteRequestsOfAll(endpointId) == <<>>

deleteRequests(endpointId) ==
    SelectSeq(requests, LAMBDA r : r.endpointId # endpointId)

----------------------------------------------------------------------------
(* Fan-out rooms (socket.io) and the HTTP reply. *)

RoomName(role, endpointId) == <<role, endpointId>>

\* The event is written twice to every socket in the room.
EmitTwice(box, room, type, payload) ==
    [ c \in Sockets |->
        IF room \in rooms[c]
        THEN box[c] (+) SetToBag({[type |-> type, payload |-> payload]})
                    (+) SetToBag({[type |-> type, payload |-> payload]})
        ELSE box[c] ]

\* The event is broadcast to every connected socket, joined or not.
EmitToAll(box, room, type, payload) ==
    [ c \in Sockets |->
        IF sockets[c] = "connected"
        THEN box[c] (+) SetToBag({[type |-> type, payload |-> payload]})
        ELSE box[c] ]

\* The broadcast is given up when a socket of the room does not take it.
EmitUnlessStalled(box, room, type, payload) ==
    [ c \in Sockets |->
        IF /\ room \in rooms[c]
           /\ \A d \in Sockets : room \in rooms[d] => sockets[d] # "stalled"
        THEN box[c] (+) SetToBag({[type |-> type, payload |-> payload]})
        ELSE box[c] ]

\* io.to(room).emit(type, payload): one event to every socket in the room.
\* The packet is written to each socket's send buffer and nothing is awaited,
\* whatever the state of the socket's peer.
Emit(box, room, type, payload) ==
    [ c \in Sockets |->
        IF room \in rooms[c]
        THEN box[c] (+) SetToBag({[type |-> type, payload |-> payload]})
        ELSE box[c] ]

Response(route, target, status, headers, body) ==
    [ route |-> route, target |-> target, status |-> status,
      headers |-> headers, body |-> body ]

Message(text) == <<"message", text>>

\* Object.entries(v) throws a TypeError on null and undefined.
ObjectEntriesThrows(v) == v[1] \in {"null", "undef"}

\* Object.entries(v): the entries of an object, none for a number or a
\* boolean, and for a non-empty string its characters under their indices,
\* kept here as one entry that stands for all of them.
ObjectEntries(v) ==
    IF v[1] = "obj" THEN v[2]
    ELSE IF IsString(v) /\ ~Falsy(v) THEN << <<"0", <<"chars", v>>>> >>
    ELSE <<>>

\* res.setHeader over the entries in order; it throws on an invalid name
\* and the headers set before the throw stay on the response.
RECURSIVE SetHeaders(_, _)
SetHeaders(entries, applied) ==
    IF entries = <<>> THEN [threw |-> FALSE, headers |-> applied]
    ELSE IF Head(entries)[1] \in InvalidHeaderNames
         THEN [threw |-> TRUE, headers |-> applied]
         ELSE SetHeaders(Tail(entries), Append(applied, Head(entries)))

\* The admission test without the isActive check.
AdmittedIfFound(result) == result # <<>>

\* The admission test of the ingestion handler: 404 unless it holds.
Admitted(result) == result # <<>> /\ ~Falsy(result[1].isActive)

\* The reply is handed to a registered tunnel agent when there is one.
SendThroughTunnel(slug, endpoint) ==
    IF \E c \in Sockets : RoomName("tunnel", endpoint.id) \in rooms[c]
    THEN Response("webhook", slug, 202, <<>>, Str("Forwarded"))
    ELSE Response("webhook", slug, 200, <<>>, Str("OK"))

\* The configured response, or the 500 of the catch block.
SendConfigured(slug, endpoint) ==
    LET statusCode == OrElse(endpoint.responseStatus, Num(200))
        responseHeaders == IF ~Falsy(endpoint.responseHeaders)
                           THEN JSONparse(endpoint.responseHeaders)
                           ELSE Obj(<<>>)
        responseBody == OrElse(endpoint.responseBody, Str("OK"))
        set == SetHeaders(ObjectEntries(responseHeaders), <<>>)
    IN  IF ObjectEntriesThrows(responseHeaders)
        THEN Response("webhook", slug, 500, <<>>, Str("Internal server error"))
        ELSE IF set.threw
        THEN Response("webhook", slug, 500, set.headers,
                      Str("Internal server error"))
        ELSE Response("webhook", slug, statusCode[2], set.headers, responseBody)

----------------------------------------------------------------------------
(* State after construction: empty tables, no socket yet. *)

NoResponse == Response("none", "", 0, <<>>, Message(""))

Init ==
    /\ endpoints = <<>>
    /\ requests = <<>>
    /\ now = 0
    /\ sockets = [c \in Sockets |-> "new"]
    /\ rooms = [c \in Sockets |-> {}]
    /\ inbox = [c \in Sockets |-> EmptyBag]
    /\ reply = NoResponse
    /\ forwards = [c \in Sockets |-> <<>>]
    /\ rateLimitStore = [k \in ClientKeys |-> <<>>]
    /\ rateLimitHeaders = <<>>
    /\ emitted = [c \in Sockets |-> <<>>]
    /\ consumed = [c \in Sockets |-> EmptyBag]
    /\ fetches = {}
    /\ queryCache = <<>>
    /\ localStorage = <<>>
    /\ passedOn = [k \in ClientKeys |-> <<0, 0>>]

----------------------------------------------------------------------------
(* Socket lifecycle: io.on("connection") and its two message handlers. *)

Connect(c) ==
    /\ sockets[c] = "new"
    /\ sockets' = [sockets EXCEPT ![c] = "connected"]
    /\ UNCHANGED <<endpoints, requests, now, rooms, inbox, reply,
                 forwards, limiter, clients>>

\* The join replays the stored records of the endpoint to the socket.
JoinReplays(c, role, endpointId) ==
    /\ sockets[c] = "connected"
    /\ rooms' = [rooms EXCEPT ![c] = @ \cup {RoomName(role, endpointId)}]
    /\ inbox' = [inbox EXCEPT ![c] = @ (+) SetToBag(
                   { [ type |-> IF role = "dashboard" THEN "new-request"
                                ELSE "tunnel-request",
                       payload |-> requests[i] ] :
                       i \in { j \in 1..Len(requests) :
                                 requests[j].endpointId = endpointId } })]
    /\ UNCHANGED <<endpoints, requests, now, sockets, reply,
                 forwards, limiter, clients>>

\* socket.join adds the room to the socket's rooms; nothing is left.
Join(c, role, endpointId) ==
    /\ sockets[c] = "connected"
    /\ rooms' = [rooms EXCEPT ![c] = @ \cup {RoomName(role, endpointId)}]
    /\ UNCHANGED <<endpoints, requests, now, sockets, inbox, reply,
                 forwards, limiter, clients>>

JoinDashboard(c, endpointId) == Join(c, "dashboard", endpointId)

RegisterTunnel(c, endpointId) == Join(c, "tunnel", endpointId)

\* The socket closes but stays in its rooms.
DisconnectKeepsRooms(c) ==
    /\ sockets[c] = "connected"
    /\ sockets' = [sockets EXCEPT ![c] = "disconnected"]
    /\ UNCHANGED <<endpoints, requests, now, rooms, inbox, reply,
                 forwards, limiter, clients>>

\* The peer of a connected socket stops taking events: it is busy in a
\* handler, slow, or its transport fails. The server runs no code for it.
Stall(c) ==
    /\ sockets[c] = "connected"
    /\ sockets' = [sockets EXCEPT ![c] = "stalled"]
    /\ UNCHANGED <<endpoints, requests, now, rooms, inbox, reply,
                 forwards, limiter, clients>>

\* On disconnect socket.io removes the socket from every room.
Disconnect(c) ==
    /\ sockets[c] \in {"connected", "stalled"}
    /\ sockets' = [sockets EXCEPT ![c] = "disconnected"]
    /\ rooms' = [rooms EXCEPT ![c] = {}]
    /\ UNCHANGED <<endpoints, requests, now, inbox, reply,
                 forwards, limiter, clients>>

\* Date.now() advances.
Tick ==
    /\ now < MaxNow
    /\ now' = now + 1
    /\ UNCHANGED <<endpoints, requests, sockets, rooms, inbox, reply,
                 forwards, limiter, clients>>

----------------------------------------------------------------------------
(* Management routes. *)

\* storage.createEndpoint behind POST /api/webhooks.
CreateEndpoint(options, id, uniqueSlug) ==
    LET newEndpoint == NewEndpoint(options, id, uniqueSlug)
    IN  /\ IF EndpointInsertFails(newEndpoint)
           THEN /\ reply' = Response("create", id, 500, <<>>,
                                     Message("Failed to create endpoint"))
                /\ UNCHANGED endpoints
           ELSE /\ endpoints' = Append(endpoints, newEndpoint)
                /\ reply' = Response("create", id, 201, <<>>,
                                     <<"endpoint", newEndpoint>>)
        /\ UNCHANGED <<requests, now, sockets, rooms, inbox,
                 forwards, limiter, clients>>

\* The authenticate middleware refuses the request: no user is
\* established from its token.
Unauthenticated(user) == Falsy(user)

\* The endpoint has an owner and the user is not the owner.
OwnedByOther(endpoint, user) ==
    ~Falsy(endpoint.userId) /\ endpoint.userId # user

\* PATCH and DELETE /api/endpoints/:id: authenticate, look the endpoint up,
\* check ownership; the update or deletion itself is not implemented.
ProtectedRoute(route, user, id, message) ==
    /\ reply' =
          IF Unauthenticated(user)
          THEN Response(route, id, 401, <<>>, Message("No token provided"))
          ELSE IF getEndpoint(id) = <<>>
          THEN Response(route, id, 404, <<>>, Message("Endpoint not found"))
          ELSE IF OwnedByOther(getEndpoint(id)[1], user)
          THEN Response(route, id, 403, <<>>, Message("Forbidden"))
          ELSE Response(route, id, 200, <<>>, Message(message))
    /\ UNCHANGED <<endpoints, requests, now, sockets, rooms, inbox,
                   forwards, limiter, clients>>

UpdateEndpoint(user, id) ==
    ProtectedRoute("update-endpoint", user, id,
                   "Endpoint update not fully implemented")

DeleteEndpoint(user, id) ==
    ProtectedRoute("delete-endpoint", user, id,
                   "Endpoint deletion not fully implemented")

\* The response object the update route hands to the storage: a falsy
\* status is passed as undefined.
ResponseArgument(body) ==
    [ responseStatus |-> IF ~Falsy(body.responseStatus)
                         THEN ParseInt(body.responseStatus)
                         ELSE Undefined,
      responseHeaders |-> body.responseHeaders,
      responseBody |-> body.responseBody ]

\* PATCH /api/webhooks/:id/response
UpdateResponse(id, body) ==
    LET result == getEndpoint(id)
        response == ResponseArgument(body)
        updated == updateEndpointResponse(result[1], response)
    IN  /\ IF result = <<>>
           THEN /\ reply' = Response("update", id, 404, <<>>,
                                     Message("Endpoint not found"))
                /\ UNCHANGED endpoints
           ELSE /\ endpoints' = [ i \in 1..Len(endpoints) |->
                                    IF endpoints[i].id = id THEN updated
                                    ELSE endpoints[i] ]
                /\ reply' = Response("update", id, 200, <<>>,
                                     <<"endpoint", updated>>)
        /\ UNCHANGED <<requests, now, sockets, rooms, inbox,
                 forwards, limiter, clients>>

\* DELETE /api/webhooks/:id/requests
ClearHistory(id) ==
    /\ IF getEndpoint(id) = <<>>
       THEN /\ reply' = Response("clear", id, 404, <<>>,
                                 Message("Endpoint not found"))
            /\ UNCHANGED requests
       ELSE /\ requests' = deleteRequests(id)
            /\ reply' = Response("clear", id, 200, <<>>,
                                 Message("History cleared"))
    /\ UNCHANGED <<endpoints, now, sockets, rooms, inbox,
                 forwards, limiter, clients>>

\* GET /api/webhooks/:id
GetEndpoint(id) ==
    LET result == getEndpoint(id)
    IN  /\ IF result = <<>>
           THEN reply' = Response("get", id, 404, <<>>,
                                  Message("Endpoint not found"))
           ELSE reply' = Response("get", id, 200, <<>>,
                                  <<"endpoint", result[1]>>)
        /\ UNCHANGED <<endpoints, requests, now, sockets, rooms, inbox,
                 forwards, limiter, clients>>

\* GET /api/webhooks/:id/requests: the listing, whatever the id names.
HandleListRequests(id) ==
    /\ \E listing \in Listings(id) :
          reply' = Response("list", id, 200, <<>>, <<"requests", listing>>)
    /\ UNCHANGED <<endpoints, requests, now, sockets, rooms, inbox,
                 forwards, limiter>>

\* The listing route, called by someone other than the dashboard page.
ListRequests(id) == HandleListRequests(id) /\ UNCHANGED clients

----------------------------------------------------------------------------
(* Ingestion: ALL /webhook/:slug. *)

\* The handler of the route, which runs once the rate limiter called next().
HandleIngestion(slug, method, body, id, elapsed, rawHeaders, query) ==
    LET result == getEndpointBySlug(slug)
        endpoint == result[1]
        requestData ==
            [ endpointId |-> endpoint.id,
              method |-> method,
              path |-> OriginalUrl(slug),
              headers |-> JSONstringify(IncomingHeaders(rawHeaders)),
              queryParams |-> JSONstringify(query),
              body |-> IF ~Falsy(body) THEN JSONstringify(body) ELSE Null,
              bodySize |-> IF ~Falsy(body) THEN Num(JsonLength(body))
                           ELSE Num(0),
              processingTimeMs |-> Null ]
        request == createRequest(requestData, id)
        savedRequest == [request EXCEPT !.processingTimeMs = Num(elapsed)]
    IN  IF ~Admitted(result)
        THEN /\ reply' = Response("webhook", slug, 404, <<>>,
                                  Str("Endpoint not found or inactive"))
             /\ UNCHANGED <<endpoints, requests, now, sockets, rooms, inbox,
                         forwards, clients>>
        ELSE IF RequestInsertFails(id)
        THEN /\ reply' = Response("webhook", slug, 500, <<>>,
                                  Str("Internal server error"))
             /\ UNCHANGED <<endpoints, requests, now, sockets, rooms, inbox,
                         forwards, clients>>
        ELSE /\ Len(requests) < MaxStored
             /\ \A c \in Sockets : BagCardinality(inbox[c]) < MaxInbox
             /\ requests' = InsertRequest(requests, request)
             /\ inbox' = Emit(Emit(inbox, RoomName("dashboard", endpoint.id),
                                   "new-request", savedRequest),
                              RoomName("tunnel", endpoint.id),
                              "tunnel-request", savedRequest)
             /\ reply' = SendConfigured(slug, endpoint)
             /\ UNCHANGED <<endpoints, now, sockets, rooms,
                         forwards, clients>>

\* The handler for a request with the plain header lines and query.
IngestionHandler(slug, method, body, id, elapsed) ==
    HandleIngestion(slug, method, body, id, elapsed, PlainHeaderLines,
                    ReqQuery)

----------------------------------------------------------------------------
(* The tunnel agent: the process behind a socket of a tunnel room. *)

\* How many tunnel-request events with this record id the socket was sent.
Received(c, id) ==
    LET box == inbox[c]
        events == { ev \in BagToSet(box) :
                      ev.type = "tunnel-request" /\ ev.payload.id = id }
    IN  BagCardinality([ev \in events |-> box[ev]])

\* How often the agent has issued a call for the record with this id.
Calls(log, id) ==
    Cardinality({ i \in 1..Len(log) : log[i].request.id = id })

\* The configuration of the outbound call.
AxiosConfig(request) ==
    [ method |-> request.method,
      url |-> <<"http://localhost:", LocalPort, "/">>,
      headers |-> Property(request, "headers"),
      data |-> Property(request, "body"),
      params |-> Property(request, "query") ]

\* The agent's handler of tunnel-request, up to its await: it takes a
\* received event that it has not handled yet and issues the outbound call.
TunnelRequest(c, request) ==
    /\ sockets[c] # "stalled"
    /\ Calls(forwards[c], request.id) < Received(c, request.id)
    /\ forwards' = [forwards EXCEPT ![c] =
                       Append(@, [ request |-> request,
                                   call |-> AxiosConfig(request),
                                   outcome |-> "pending",
                                   logged |-> "" ])]
    /\ UNCHANGED <<endpoints, requests, now, sockets, rooms, inbox, reply,
                   limiter, clients>>

\* A failed forward is issued once more.
ForwardSettledRetries(c, i, outcome) ==
    /\ i \in 1..Len(forwards[c])
    /\ forwards[c][i].outcome = "pending"
    /\ forwards' = [forwards EXCEPT ![c] =
                       IF outcome = "ok"
                       THEN [@ EXCEPT ![i].outcome = outcome,
                                      ![i].logged = "Forwarded successfully"]
                       ELSE Append([@ EXCEPT ![i].outcome = outcome,
                                             ![i].logged = "Forward failed"],
                                   [@[i] EXCEPT !.outcome = "pending"])]
    /\ UNCHANGED <<endpoints, requests, now, sockets, rooms, inbox, reply,
                   limiter, clients>>

\* The rest of the handler, once the outbound call has settled: success is
\* logged, and a rejection is caught and logged.
ForwardSettled(c, i, outcome) ==
    /\ i \in 1..Len(forwards[c])
    /\ forwards[c][i].outcome = "pending"
    /\ forwards' = [forwards EXCEPT ![c] =
                       [@ EXCEPT ![i].outcome = outcome,
                                 ![i].logged = IF outcome = "ok"
                                               THEN "Forwarded successfully"
                                               ELSE "Forward failed"]]
    /\ UNCHANGED <<endpoints, requests, now, sockets, rooms, inbox, reply,
                   limiter, clients>>

----------------------------------------------------------------------------
(* The rate limiter in front of the ingestion route. *)

\* The limit is exceeded one request late.
ExceededLate(count) == count > MaxRequests + 1

\* rateLimit.count > options.maxRequests
Exceeded(count) == count > MaxRequests

\* The entry of the key the request is counted in: a new window when the
\* key has none or its window has ended, with the request counted.
Counted(key) ==
    LET entry == IF \/ rateLimitStore[key] = <<>>
                    \/ rateLimitStore[key][1].resetAt < now
                 THEN [count |-> 0, resetAt |-> now + WindowMs]
                 ELSE rateLimitStore[key][1]
    IN  [entry EXCEPT !.count = @ + 1]

\* The difference is not clamped at zero.
RemainingUnclamped(count) == MaxRequests - count

\* Math.max(0, options.maxRequests - rateLimit.count)
Remaining(count) ==
    IF MaxRequests - count > 0 THEN MaxRequests - count ELSE 0

\* ALL /webhook/:slug: anonymousRateLimit, then the handler if it calls
\* next().
RateLimitedWebhook(key, slug, method, body, id, elapsed) ==
    LET rateLimit == Counted(key)
    IN  /\ rateLimit.count <= MaxCount
        /\ rateLimitStore' = [rateLimitStore EXCEPT ![key] = <<rateLimit>>]
        /\ rateLimitHeaders' = << [ limit |-> MaxRequests,
                                    remaining |-> Remaining(rateLimit.count),
                                    reset |-> Date(rateLimit.resetAt) ] >>
        /\ IF Exceeded(rateLimit.count)
           THEN /\ reply' = Response("webhook", slug, 429, <<>>,
                                     Message(LimitMessage))
                /\ UNCHANGED <<endpoints, requests, now, sockets, rooms,
                               inbox, forwards, passedOn, clients>>
           ELSE /\ passedOn' = [passedOn EXCEPT ![key][2] = @ + 1]
                /\ IngestionHandler(slug, method, body, id, elapsed)

\* Half an hour passes.
HalfHour ==
    /\ now < MaxHalfHours * HalfHourMs
    /\ now' = now + HalfHourMs
    /\ passedOn' = [k \in ClientKeys |-> <<passedOn[k][2], 0>>]
    /\ UNCHANGED <<endpoints, requests, sockets, rooms, inbox, reply,
                   forwards, rateLimitStore, rateLimitHeaders, clients>>

\* setInterval: the entries whose window has ended are deleted.
Cleanup ==
    /\ rateLimitStore' =
          [k \in ClientKeys |->
              IF rateLimitStore[k] # <<>> /\ rateLimitStore[k][1].resetAt < now
              THEN <<>> ELSE rateLimitStore[k]]
    /\ UNCHANGED <<endpoints, requests, now, sockets, rooms, inbox, reply,
                   forwards, rateLimitHeaders, passedOn, clients>>

\* The route for a request the rate limiter passes without counting.
Webhook(slug, method, body, id, elapsed) ==
    /\ IngestionHandler(slug, method, body, id, elapsed)
    /\ UNCHANGED limiter

----------------------------------------------------------------------------
(* The socket clients and the dashboard page (client/src/hooks). *)

MAX_REQUESTS_PER_WEBHOOK == 100

\* The message a client sends to enter its room: the agent register-tunnel,
\* the page join-dashboard, each with the id of its webhook.
JoinMessage(role, webhookId) == [role |-> role, webhookId |-> webhookId]

\* Only the first connection of a client sends the join message.
OnConnectFirstOnly(c, role, webhookId) ==
    /\ sockets[c] = "connected"
    /\ \A d \in Sockets : emitted[d] = <<>>
    /\ emitted' = [emitted EXCEPT ![c] = <<JoinMessage(role, webhookId)>>]
    /\ UNCHANGED <<endpoints, requests, now, sockets, rooms, inbox, reply,
                 forwards, limiter, consumed, fetches, queryCache,
                 localStorage>>

\* socket.on("connect"): runs once on every connection the client
\* establishes, the first and every later one, and emits the join message.
OnConnect(c, role, webhookId) ==
    /\ sockets[c] = "connected"
    /\ emitted[c] = <<>>
    /\ emitted' = [emitted EXCEPT ![c] = <<JoinMessage(role, webhookId)>>]
    /\ UNCHANGED <<endpoints, requests, now, sockets, rooms, inbox, reply,
                 forwards, limiter, consumed, fetches, queryCache,
                 localStorage>>

\* The server takes the join message a connection has emitted.
JoinReceived(c) ==
    /\ emitted[c] # <<>>
    /\ Join(c, emitted[c][1].role, emitted[c][1].webhookId)

\* Array.prototype.sort with (a, b) => b.timestamp - a.timestamp: stable,
\* the newest first.
SortNewestFirst(rows) == OrderByTimestampDesc(rows)

\* getStoredRequests: the array under the key of the webhook, or [].
getStoredRequests == localStorage

\* storeRequest: the request in front of the stored ones, at most 100 kept.
storeRequest(request) ==
    Limit(<<request>> \o getStoredRequests, MAX_REQUESTS_PER_WEBHOOK)

\* The list the query function returns for a server listing: the server's
\* requests, then the stored ones the server did not return, newest first.
Merged(serverRequests, storedRequests) ==
    LET serverIds == { serverRequests[i].id : i \in 1..Len(serverRequests) }
    IN  SortNewestFirst(
            serverRequests \o
            SelectSeq(storedRequests, LAMBDA r : r.id \notin serverIds))

\* The page fetches the history: the server answers the GET and the
\* response is on its way.
FetchRequests(webhookId) ==
    /\ Cardinality(fetches) < MaxFetches
    /\ HandleListRequests(webhookId)
    /\ fetches' = fetches \cup {reply'.body[2]}
    /\ UNCHANGED <<emitted, consumed, queryCache, localStorage>>

\* The response arrives: the query function merges it with the stored
\* requests and its result becomes the query data.
FetchResolved(serverRequests) ==
    /\ serverRequests \in fetches
    /\ fetches' = fetches \ {serverRequests}
    /\ queryCache' = <<Merged(serverRequests, getStoredRequests)>>
    /\ UNCHANGED <<endpoints, requests, now, sockets, rooms, inbox, reply,
                 forwards, limiter, emitted, consumed, localStorage>>

\* socket.on("new-request"): the request is stored in localStorage and put
\* in front of the query data of the webhook.
NewRequest(c, newRequest) ==
    LET ev == [type |-> "new-request", payload |-> newRequest]
    IN  /\ CopiesIn(ev, consumed[c]) < CopiesIn(ev, inbox[c])
        /\ consumed' = [consumed EXCEPT ![c] = @ (+) SetToBag({ev})]
        /\ localStorage' = storeRequest(newRequest)
        /\ queryCache' = IF queryCache = <<>>
                         THEN <<<<newRequest>>>>
                         ELSE <<<<newRequest>> \o queryCache[1]>>
        /\ UNCHANGED <<endpoints, requests, now, sockets, rooms, inbox,
                     reply, forwards, limiter, emitted, fetches>>

----------------------------------------------------------------------------
(* Inputs and specifications. *)

Elapsed == 0..MaxElapsed

DefaultOptions ==
    [ isActive |-> Undefined, expiresAt |-> Undefined,
      maxRequests |-> Undefined, responseStatus |-> Undefined,
      responseHeaders |-> Undefined, responseBody |-> Undefined ]

\* Options that set the admission fields: inactive, expiring at instant 0,
\* a quota of one request.
AdmissionOptions ==
    { [DefaultOptions EXCEPT !.isActive = a, !.expiresAt = x,
                             !.maxRequests = m] :
        a \in {Undefined, Bool(FALSE)},
        x \in {Undefined, Date(0)},
        m \in {Undefined, Num(1)} }

ResponseUpdates ==
    { [ responseStatus |-> s, responseHeaders |-> h, responseBody |-> b ] :
        s \in {Undefined, Num(0), Str("201")},
        h \in {Undefined, Null, GoodHeaders, BadNameHeaders},
        b \in {Undefined, Str(""), Str("{\"ok\":true}")} }

\* Fan-out: two endpoints with default options; socket c1 joins in either
\* role, socket c2 as a dashboard.
Next ==
    \/ CreateEndpoint(DefaultOptions, "e1", "s1")
    \/ CreateEndpoint(DefaultOptions, "e2", "s2")
    \/ \E s \in Slugs, r \in {"r1", "r2"} : Webhook(s, "POST", SmallBody, r, 1)
    \/ \E c \in Sockets : Connect(c)
    \/ \E c \in Sockets, id \in EndpointIds : JoinDashboard(c, id)
    \/ \E id \in EndpointIds : RegisterTunnel("c1", id)
    \/ \E c \in Sockets : Disconnect(c)

Spec == Init /\ [][Next]_vars

\* Admission: endpoints created inactive, expiring or with a small quota;
\* bodies below and above the documented ceiling; one subscriber socket.
NextAdmission ==
    \/ \E o \in AdmissionOptions : CreateEndpoint(o, "e1", "s1")
    \/ \E s \in Slugs, b \in {SmallBody, BigBody}, r \in {"r1", "r2"} :
          Webhook(s, "POST", b, r, 1)
    \/ Connect("c1")
    \/ JoinDashboard("c1", "e1")
    \/ RegisterTunnel("c1", "e1")
    \/ Tick

SpecAdmission == Init /\ [][NextAdmission]_vars

\* Response synthesis: one endpoint under every response configuration.
NextResponse ==
    \/ CreateEndpoint(DefaultOptions, "e1", "s1")
    \/ \E b \in ResponseUpdates : UpdateResponse("e1", b)
    \/ \E m \in Methods, b \in Bodies, r \in RequestIds, el \in Elapsed :
          Webhook("s1", m, b, r, el)
    \/ ClearHistory("e1")

SpecResponse == Init /\ [][NextResponse]_vars

\* A partial update that supplies the status only.
StatusUpdate ==
    [ responseStatus |-> Str("201"), responseHeaders |-> Undefined,
      responseBody |-> Undefined ]

\* Registry: creations draw the id and the slug independently, so both
\* collide; every id-addressed route is called with known and unknown ids.
NextRegistry ==
    \/ \E id \in EndpointIds, s \in Slugs : CreateEndpoint(DefaultOptions, id, s)
    \/ \E id \in EndpointIds : GetEndpoint(id)
    \/ \E id \in EndpointIds : ListRequests(id)
    \/ \E id \in EndpointIds : UpdateResponse(id, StatusUpdate)
    \/ \E id \in EndpointIds : ClearHistory(id)
    \/ \E s \in Slugs, r \in {"r1", "r2"} : Webhook(s, "POST", SmallBody, r, 1)

SpecRegistry == Init /\ [][NextRegistry]_vars

\* Default options, and options that set every admission field.
UpdateOptions ==
    { DefaultOptions,
      [DefaultOptions EXCEPT !.isActive = Bool(FALSE), !.expiresAt = Date(0),
                             !.maxRequests = Num(1)] }

\* Response configuration: one endpoint, created with default or with set
\* admission fields, updated with every partial update while the clock
\* advances.
NextUpdate ==
    \/ \E o \in UpdateOptions : CreateEndpoint(o, "e1", "s1")
    \/ \E b \in ResponseUpdates : UpdateResponse("e1", b)
    \/ GetEndpoint("e1")
    \/ Tick

SpecUpdate == Init /\ [][NextUpdate]_vars

\* The rate limited ingestion route over two hours; no endpoint is
\* registered, so the handler answers every request it is passed 404.
NextLimiter ==
    \/ \E k \in ClientKeys :
          RateLimitedWebhook(k, "s1", "POST", SmallBody, "r1", 1)
    \/ HalfHour
    \/ Cleanup

SpecLimiter == Init /\ [][NextLimiter]_vars

\* The header lines and the query mappings of the captured requests.
HeaderLineInputs ==
    { PlainHeaderLines,
      PlainHeaderLines \o << <<"x-signature", "v1">>, <<"x-signature", "v2">> >>,
      PlainHeaderLines \o << <<"authorization", "v1">>,
                             <<"authorization", "v2">> >> }

QueryInputs == { Obj(<<>>), ReqQuery }

\* Capture of requests with repeated header names and several queries.
NextCapture ==
    \/ CreateEndpoint(DefaultOptions, "e1", "s1")
    \/ \E r \in RequestIds, h \in HeaderLineInputs, q \in QueryInputs :
          /\ HandleIngestion("s1", "POST", SmallBody, r, 1, h, q)
          /\ UNCHANGED limiter
    \/ ClearHistory("e1")
    \/ \E id \in EndpointIds : ListRequests(id)

SpecCapture == Init /\ [][NextCapture]_vars

\* req.user?.id of the callers: none, the owner and another user.
Callers == {Undefined, Str("u1"), Str("u2")}

\* The options of a creation by an authenticated user.
OwnedOptions(user) ==
    [ f \in DOMAIN DefaultOptions \cup {"userId"} |->
        IF f = "userId" THEN user ELSE DefaultOptions[f] ]

\* An owned and an anonymous endpoint and the management routes.
NextOwnership ==
    \/ CreateEndpoint(OwnedOptions(Str("u1")), "e1", "s1")
    \/ CreateEndpoint(DefaultOptions, "e2", "s2")
    \/ \E u \in Callers, id \in EndpointIds : UpdateEndpoint(u, id)
    \/ \E u \in Callers, id \in EndpointIds : DeleteEndpoint(u, id)
    \/ \E id \in EndpointIds : UpdateResponse(id, StatusUpdate)
    \/ \E id \in EndpointIds : ClearHistory(id)
    \/ \E s \in Slugs, r \in {"r1", "r2"} : Webhook(s, "POST", SmallBody, r, 1)

SpecOwnership == Init /\ [][NextOwnership]_vars

\* String(v): the decimal text of a number, a string as it is.
String(v) == IF v[1] = "num" THEN <<"digits", v[2]>> ELSE v

\* The text the form shows for the headers of the loaded endpoint.
FormHeaders(webhook) ==
    IF ~Falsy(webhook.responseHeaders)
    THEN JSONstringify(webhook.responseHeaders)
    ELSE JSONstringify(Obj(<< <<"Content-Type",
                                Str("application/json")>> >>))

\* How many times the value has been encoded as JSON text.
RECURSIVE Encodings(_)
Encodings(v) == IF v[1] = "json" THEN 1 + Encodings(v[2]) ELSE 0

\* The configuration handleSave and handleUpdateResponse send for a form
\* that was filled from the endpoint and not edited.
FormConfig(webhook) ==
    [ responseStatus |-> String(OrElse(webhook.responseStatus, Str("200"))),
      responseHeaders |-> JSONparse(FormHeaders(webhook)),
      responseBody |-> OrElse(webhook.responseBody, Str("OK")) ]

\* The dashboard loads the endpoint into the response form and saves it
\* without edits.
SaveUnedited(id) ==
    /\ getEndpoint(id) # <<>>
    /\ Encodings(getEndpoint(id)[1].responseHeaders) < MaxEncodings
    /\ UpdateResponse(id, FormConfig(getEndpoint(id)[1]))

\* The configurations saved through the API before the form is used.
SavedConfigs ==
    { [ responseStatus |-> Str("201"), responseHeaders |-> h,
        responseBody |-> Undefined ] : h \in {Undefined, GoodHeaders} }

\* The response form of the dashboard over one endpoint.
NextForm ==
    \/ CreateEndpoint(DefaultOptions, "e1", "s1")
    \/ \E b \in SavedConfigs : UpdateResponse("e1", b)
    \/ SaveUnedited("e1")
    \/ \E r \in RequestIds : Webhook("s1", "POST", SmallBody, r, 1)
    \/ ClearHistory("e1")
    \/ Tick

SpecForm == Init /\ [][NextForm]_vars

\* One endpoint and its tunnel agent.
NextTunnel ==
    \/ CreateEndpoint(DefaultOptions, "e1", "s1")
    \/ \E r \in {"r1", "r2"} : Webhook("s1", "POST", SmallBody, r, 1)
    \/ Connect("c1")
    \/ RegisterTunnel("c1", "e1")
    \/ \E ev \in BagToSet(inbox["c1"]) : TunnelRequest("c1", ev.payload)
    \/ \E i \in 1..MaxInbox, o \in Outcomes : ForwardSettled("c1", i, o)
    \/ Disconnect("c1")

SpecTunnel == Init /\ [][NextTunnel]_vars

\* Fan-out of one endpoint to subscribers that may stop taking events.
NextStalled ==
    \/ CreateEndpoint(DefaultOptions, "e1", "s1")
    \/ \E s \in Slugs, r \in {"r1", "r2"} : Webhook(s, "POST", SmallBody, r, 1)
    \/ \E c \in Sockets : Connect(c)
    \/ \E c \in Sockets : JoinDashboard(c, "e1")
    \/ \E c \in Sockets : RegisterTunnel(c, "e1")
    \/ \E c \in Sockets : Stall(c)
    \/ \E c \in Sockets : Disconnect(c)

SpecStalled == Init /\ [][NextStalled]_vars

\* History: two endpoints, ingestions at different and at equal clock
\* readings, listing and clearing.
NextHistory ==
    \/ CreateEndpoint(DefaultOptions, "e1", "s1")
    \/ CreateEndpoint(DefaultOptions, "e2", "s2")
    \/ \E s \in Slugs, r \in RequestIds : Webhook(s, "POST", SmallBody, r, 1)
    \/ \E id \in EndpointIds : ListRequests(id)
    \/ \E id \in EndpointIds : ClearHistory(id)
    \/ Tick

SpecHistory == Init /\ [][NextHistory]_vars

\* The event handler of the page behind a socket takes an event it was sent.
Handled(c) ==
    \E ev \in BagToSet(inbox[c]) :
        ev.type = "new-request" /\ NewRequest(c, ev.payload)

\* Dashboard: one page open on endpoint e1 over socket c1, fetching the
\* history while requests are captured.
NextDashboard ==
    \/ CreateEndpoint(DefaultOptions, "e1", "s1")
    \/ Connect("c1")
    \/ OnConnect("c1", "dashboard", "e1")
    \/ JoinReceived("c1")
    \/ \E r \in {"r1", "r2"} : Webhook("s1", "POST", SmallBody, r, 1)
    \/ FetchRequests("e1")
    \/ \E serverRequests \in fetches : FetchResolved(serverRequests)
    \/ Handled("c1")
    \/ Tick

SpecDashboard == Init /\ [][NextDashboard]_vars

\* Cleared: the same page while the history of e1 is also cleared on the
\* server.
NextCleared ==
    \/ CreateEndpoint(DefaultOptions, "e1", "s1")
    \/ Connect("c1")
    \/ OnConnect("c1", "dashboard", "e1")
    \/ JoinReceived("c1")
    \/ Webhook("s1", "POST", SmallBody, "r1", 1)
    \/ ClearHistory("e1")
    \/ FetchRequests("e1")
    \/ \E serverRequests \in fetches : FetchResolved(serverRequests)
    \/ Handled("c1")

SpecCleared == Init /\ [][NextCleared]_vars

\* Reconnection: one client of endpoint e1, agent or page, whose
\* connections are the sockets in turn; a connection that drops is followed
\* by a new one.
NextReconnect ==
    \/ CreateEndpoint(DefaultOptions, "e1", "s1")
    \/ \E c \in Sockets : Connect(c)
    \/ \E c \in Sockets, role \in {"dashboard", "tunnel"} :
          OnConnect(c, role, "e1")
    \/ \E c \in Sockets : JoinReceived(c)
    \/ \E c \in Sockets : Disconnect(c)
    \/ \E r \in {"r1", "r2"} : Webhook("s1", "POST", SmallBody, r, 1)

\* A connected client runs its connect handler, and the server the handler
\* of a message it was sent.
SpecReconnect ==
    /\ Init
    /\ [][NextReconnect]_vars
    /\ \A c \in Sockets :
          /\ WF_vars(\E role \in {"dashboard", "tunnel"} :
                        OnConnect(c, role, "e1"))
          /\ WF_vars(JoinReceived(c))

----------------------------------------------------------------------------
(* Vocabulary of the properties. *)

\* The ids of the rows the history listing of an endpoint returns.
ListedIds(endpointId) ==
    { getRequests(endpointId)[i].id : i \in 1..Len(getRequests(endpointId)) }

\* The events a socket has been sent.
Events(c) == BagToSet(inbox[c])

\* How many events of a type carrying a record id a socket has been sent.
Delivered(box, type, id) ==
    BagCardinality([ ev \in { e \in BagToSet(box) :
                                e.type = type /\ e.payload.id = id } |->
                     box[ev] ])

\* An ingestion was accepted in this step: its row was appended.
Accepted == Len(requests') = Len(requests) + 1

Captured == requests'[Len(requests')]

StoredCount(endpointId) ==
    Len(SelectSeq(requests, LAMBDA r : r.endpointId = endpointId))

IsExpired(endpoint) ==
    endpoint.expiresAt[1] = "date" /\ now > endpoint.expiresAt[2]

IsActive(endpoint) == ~Falsy(endpoint.isActive)

OverQuota(endpoint) == StoredCount(endpoint.id) >= endpoint.maxRequests[2]

\* Some ingestion request of the admission specification is handled.
IngestionStep(slug, body) == \E r \in {"r1", "r2"} : Webhook(slug, "POST", body, r, 1)

----------------------------------------------------------------------------
(* Claims. *)

C2_ExactlyOnePerSubscriber ==
    [][ Accepted =>
          /\ \E e \in EndpointIds :
               e = Captured.endpointId /\ Captured.id \in ListedIds(e)'
          /\ \A c \in Sockets :
               /\ Delivered(inbox'[c], "new-request", Captured.id)
                    - Delivered(inbox[c], "new-request", Captured.id)
                  = IF <<"dashboard", Captured.endpointId>> \in rooms[c]
                    THEN 1 ELSE 0
               /\ Delivered(inbox'[c], "tunnel-request", Captured.id)
                    - Delivered(inbox[c], "tunnel-request", Captured.id)
                  = IF <<"tunnel", Captured.endpointId>> \in rooms[c]
                    THEN 1 ELSE 0 ]_vars

C2_Witness ==
    \E i \in 1..Len(requests) :
        /\ requests[i].id \in ListedIds(requests[i].endpointId)
        /\ Delivered(inbox["c1"], "new-request", requests[i].id) = 1
        /\ Delivered(inbox["c1"], "tunnel-request", requests[i].id) = 1
        /\ Delivered(inbox["c2"], "new-request", requests[i].id) = 1

\* C3: room isolation: a socket is sent a new-request (tunnel-request) event
\* of endpoint Y only if it has joined dashboard:Y (tunnel:Y) since it
\* connected.
C3_RoomIsolation ==
    [][ \A c \in Sockets : \A ev \in Events(c)' :
          CopiesIn(ev, inbox'[c]) > CopiesIn(ev, inbox[c])
          => /\ ev.type = "new-request"
                  => <<"dashboard", ev.payload.endpointId>> \in rooms[c]
             /\ ev.type = "tunnel-request"
                  => <<"tunnel", ev.payload.endpointId>> \in rooms[c] ]_vars

\* A tunnel agent registered only for e1 has its e1 event, a record of e2
\* was captured, and the agent was sent nothing of e2.
C3_Witness ==
    /\ rooms["c1"] = {<<"tunnel", "e1">>}
    /\ \E ev \in Events("c1") : ev.payload.endpointId = "e1"
    /\ \E i \in 1..Len(requests) : requests[i].endpointId = "e2"
    /\ \A ev \in Events("c1") : ev.payload.endpointId # "e2"

\* The same, for a request whose record id is free: the insert cannot fail.
StorableIngestionStep(slug, body) ==
    \E r \in {"r1", "r2"} :
        ~RequestInsertFails(r) /\ Webhook(slug, "POST", body, r, 1)

\* The outcome the admission order inactive, expired, quota prescribes for
\* a resolved endpoint; 0 stands for acceptance.
Rejection(endpoint) ==
    IF ~IsActive(endpoint) THEN 404
    ELSE IF IsExpired(endpoint) THEN 410
    ELSE IF OverQuota(endpoint) THEN 429
    ELSE 0

\* C4: the admission decision checks inactive, then expired, then quota,
\* and the first failing check decides the status: 404, 410 or 429.
C4_AdmissionOrder ==
    [][ \A slug \in Slugs, body \in {SmallBody, BigBody} :
          ( /\ StorableIngestionStep(slug, body)
            /\ getEndpointBySlug(slug) # <<>>
            /\ Rejection(getEndpointBySlug(slug)[1]) # 0 )
          => reply'.status = Rejection(getEndpointBySlug(slug)[1]) ]_vars

\* C5: ingestion to an active endpoint whose expiresAt lies in the past is
\* answered 410, creates no record and publishes no event.
C5_ExpiredRejected ==
    [][ \A slug \in Slugs, body \in {SmallBody, BigBody} :
          ( /\ StorableIngestionStep(slug, body)
            /\ getEndpointBySlug(slug) # <<>>
            /\ IsActive(getEndpointBySlug(slug)[1])
            /\ IsExpired(getEndpointBySlug(slug)[1]) )
          => /\ reply'.status = 410
             /\ UNCHANGED <<requests, inbox>> ]_vars

\* C6: in every reachable state the number of stored requests of an
\* endpoint is at most its maxRequests.
C6_QuotaNeverExceeded ==
    \A i \in 1..Len(endpoints) :
        StoredCount(endpoints[i].id) <= endpoints[i].maxRequests[2]

\* C7: an ingestion whose body exceeds the size ceiling is answered 413;
\* the stored requests are unchanged and no event is published.
C7_OversizedRejected ==
    [][ \A slug \in Slugs, body \in {SmallBody, BigBody} :
          ( /\ StorableIngestionStep(slug, body)
            /\ Admitted(getEndpointBySlug(slug))
            /\ JsonLength(body) > BodyCeiling )
          => /\ reply'.status = 413
             /\ UNCHANGED <<requests, inbox>> ]_vars

ResponseIngestionStep ==
    \E m \in Methods, b \in Bodies, r \in RequestIds, el \in Elapsed :
        Webhook("s1", m, b, r, el)

\* The status and body the stored configuration prescribes.
ConfiguredStatus(endpoint) ==
    IF endpoint.responseStatus[1] = "num" THEN endpoint.responseStatus[2]
    ELSE 200

ConfiguredBody(endpoint) ==
    IF endpoint.responseBody \in {Null, Str("")} THEN Str("OK")
    ELSE endpoint.responseBody

\* A parsed header configuration is a flat mapping of applicable names to
\* strings.
FlatStringMap(v) ==
    /\ v[1] = "obj"
    /\ \A i \in 1..Len(v[2]) :
         v[2][i][1] \notin InvalidHeaderNames /\ v[2][i][2][1] = "str"

MalformedHeaders(endpoint) ==
    /\ endpoint.responseHeaders # Null
    /\ ~FlatStringMap(JSONparse(endpoint.responseHeaders))

\* C9: every accepted ingestion is answered with the endpoint's currently
\* stored responseStatus (200 if unset) and responseBody (OK if unset or
\* empty), also after a response-configuration update.
C9_ConfiguredReply ==
    [][ (ResponseIngestionStep /\ Accepted)
          => /\ reply'.status = ConfiguredStatus(endpoints[1])
             /\ reply'.body = ConfiguredBody(endpoints[1]) ]_vars

\* C10: with a malformed stored header configuration the ingestion reply is
\* the default response: status 200, body OK, no custom header.
C10_FailClosed ==
    [][ (ResponseIngestionStep /\ Accepted /\ MalformedHeaders(endpoints[1]))
          => reply' = Response("webhook", "s1", 200, <<>>, Str("OK")) ]_vars

\* The statuses the ingestion handler answers an error with.
ErrorStatuses == {404, 410, 413, 429, 500}

\* C11: an ingestion answered with the synthesized response created exactly
\* one record, and an ingestion answered with an error status (404, 410,
\* 413, 429 or 500) created no record and published no event.
C11_OneRecordPerAccepted ==
    [][ ResponseIngestionStep
          => IF reply'.status \in ErrorStatuses
             THEN UNCHANGED <<requests, inbox>>
             ELSE Accepted ]_vars

\* The reply to an ingestion as a function of the endpoint table, the
\* request table and the request alone; no socket, room or inbox enters.
CallerReply(slug, id) ==
    LET result == getEndpointBySlug(slug)
    IN  IF result = <<>> \/ ~IsActive(result[1])
        THEN Response("webhook", slug, 404, <<>>,
                      Str("Endpoint not found or inactive"))
        ELSE IF \E i \in 1..Len(requests) : requests[i].id = id
        THEN Response("webhook", slug, 500, <<>>,
                      Str("Internal server error"))
        ELSE Response("webhook", slug, ConfiguredStatus(result[1]),
                      IF result[1].responseHeaders = Null THEN <<>>
                      ELSE JSONparse(result[1].responseHeaders)[2],
                      ConfiguredBody(result[1]))

\* C12: the reply to the webhook caller does not depend on the subscribers:
\* a step of a socket (connect, join, disconnect) changes neither the tables
\* nor a reply, and the status, headers and body of an ingestion reply are
\* determined by the tables and the request, whoever is joined.
C12_ReplyIgnoresSubscribers ==
    [][ /\ (sockets' # sockets \/ rooms' # rooms)
             => UNCHANGED <<endpoints, requests, reply>>
        /\ \A s \in Slugs, r \in {"r1", "r2"} :
             Webhook(s, "POST", SmallBody, r, 1) => reply' = CallerReply(s, r)
      ]_vars

\* Two ingestions of e1 were accepted, the first delivered to a registered
\* tunnel agent, the second to nobody, and the caller was answered 200 OK.
C12_Witness ==
    /\ reply = Response("webhook", "s1", 200, <<>>, Str("OK"))
    /\ Len(requests) = 2
    /\ requests[1].endpointId = "e1" /\ requests[2].endpointId = "e1"
    /\ Delivered(inbox["c1"], "tunnel-request", requests[1].id) = 1
    /\ \A c \in Sockets : \A ev \in Events(c) :
         ev.payload.id # requests[2].id

\* C13: in every reachable state a connection is a member of at most one
\* room/role pair: a join naming another endpoint id or role replaces the
\* previous membership.
C13_SingleMembership ==
    \A c \in Sockets : Cardinality(rooms[c]) <= 1

\* C14: disconnected is terminal: the step that disconnects a connection
\* releases all of its room memberships, a disconnected connection stays
\* disconnected without any membership, and no event is delivered to it.
C14_DisconnectedIsTerminal ==
    [][ \A c \in Sockets :
          /\ sockets'[c] = "disconnected" => rooms'[c] = {}
          /\ sockets[c] = "disconnected"
               => /\ sockets'[c] = "disconnected"
                  /\ inbox'[c] = inbox[c] ]_vars

\* Socket c1 received the first record of e1 and disconnected; the second
\* record of e1 was published to c2 and never reached c1.
C14_Witness ==
    /\ sockets["c1"] = "disconnected"
    /\ Len(requests) = 2
    /\ requests[1].endpointId = "e1" /\ requests[2].endpointId = "e1"
    /\ Delivered(inbox["c1"], "new-request", requests[1].id) = 1
    /\ Delivered(inbox["c2"], "new-request", requests[2].id) = 1
    /\ \A ev \in Events("c1") : ev.payload.id # requests[2].id

\* C15: the bus is not a durable log: a connection is sent an event only in
\* the step that captures the event's request, and only if it was a member
\* of a room of the request's endpoint before that step; a join delivers
\* nothing of what was captured earlier.
C15_NoReplay ==
    [][ \A c \in Sockets : \A ev \in Events(c)' :
          CopiesIn(ev, inbox'[c]) > CopiesIn(ev, inbox[c])
          => /\ Accepted
             /\ ev.payload.id = Captured.id
             /\ \E role \in {"dashboard", "tunnel"} :
                  <<role, Captured.endpointId>> \in rooms[c] ]_vars

\* Socket c1 received the first record of e1 and disconnected, the second
\* record of e1 was captured in the gap, and socket c2 joined dashboard:e1
\* afterwards: the second record has reached nobody.
C15_Witness ==
    /\ sockets["c1"] = "disconnected"
    /\ <<"dashboard", "e1">> \in rooms["c2"]
    /\ Len(requests) = 2
    /\ requests[1].endpointId = "e1" /\ requests[2].endpointId = "e1"
    /\ Delivered(inbox["c1"], "tunnel-request", requests[1].id) = 1
    /\ \A ev \in Events("c1") : ev.payload.id # requests[2].id
    /\ inbox["c2"] = EmptyBag

ResponseFields == {"responseStatus", "responseHeaders", "responseBody"}

\* The value a supplied response field is stored as.
StoredValue(body, field) ==
    IF field = "responseStatus" THEN ParseInt(body.responseStatus)
    ELSE IF field = "responseHeaders"
    THEN JSONstringify(body.responseHeaders)
    ELSE body.responseBody

\* The field is present in the request body.
Supplied(body, field) == body[field] # Undefined

\* The field is present and, for the status, not 0, "" or null.
Provided(body, field) ==
    /\ Supplied(body, field)
    /\ field = "responseStatus" => ~Falsy(body.responseStatus)

\* Some response update of a stored endpoint e1 is handled.
UpdateStep(body) == endpoints # <<>> /\ UpdateResponse("e1", body)

\* C16 as stated: a response update changes exactly the supplied response
\* fields of the endpoint, and every field that was not supplied keeps its
\* previous value.
C16_MergeSuppliedOnly ==
    [][ \A body \in ResponseUpdates :
          UpdateStep(body)
          => \A field \in DOMAIN endpoints[1] :
               endpoints'[1][field] =
                 IF field \in ResponseFields /\ Supplied(body, field)
                 THEN StoredValue(body, field)
                 ELSE endpoints[1][field] ]_vars

\* C16 amended: a response update overwrites exactly the provided response
\* fields (a status of 0, "" or null counts as not provided) and sets
\* updatedAt to the time of the update; every other field keeps its value.
C16_MergeProvidedOnly ==
    [][ \A body \in ResponseUpdates :
          UpdateStep(body)
          => \A field \in DOMAIN endpoints[1] :
               endpoints'[1][field] =
                 IF field = "updatedAt" THEN Date(now)
                 ELSE IF field \in ResponseFields /\ Provided(body, field)
                 THEN StoredValue(body, field)
                 ELSE endpoints[1][field] ]_vars

\* An inactive endpoint with an expiry and a quota of one had its status
\* alone updated, at a later time than its creation.
C16_Witness ==
    /\ reply.route = "update" /\ reply.status = 200
    /\ endpoints # <<>>
    /\ endpoints[1].responseStatus = Num(201)
    /\ endpoints[1].responseHeaders = Null
    /\ endpoints[1].responseBody = Null
    /\ endpoints[1].isActive = Bool(FALSE)
    /\ endpoints[1].expiresAt = Date(0)
    /\ endpoints[1].maxRequests = Num(1)
    /\ endpoints[1].updatedAt # endpoints[1].createdAt

\* The endpoint after the same update is applied once more at a time t.
AppliedAgain(endpoint, body, t) ==
    Spread(endpoint, Updates(ResponseArgument(body), t))

\* The times at which a later application can happen.
LaterTimes == now..MaxNow

\* C17 as stated: the response update is idempotent: applying the update a
\* second time to the endpoint the first application left yields the same
\* endpoint, which is also the endpoint returned.
C17_Idempotent ==
    [][ \A body \in ResponseUpdates :
          UpdateStep(body)
          => \A t \in LaterTimes :
               AppliedAgain(endpoints'[1], body, t) = endpoints'[1] ]_vars

\* C17 amended: applying the update a second time yields the endpoint the
\* first application left, except for updatedAt, which is the time of the
\* second application.
C17_IdempotentUpToUpdatedAt ==
    [][ \A body \in ResponseUpdates :
          UpdateStep(body)
          => \A t \in LaterTimes :
               AppliedAgain(endpoints'[1], body, t)
                 = [endpoints'[1] EXCEPT !.updatedAt = Date(t)] ]_vars

\* An update of all three response fields was applied to an endpoint whose
\* configuration was different before (it was updated earlier or later than
\* created), while the clock can still advance.
C17_Witness ==
    /\ reply.route = "update" /\ reply.status = 200
    /\ endpoints # <<>>
    /\ reply.body = <<"endpoint", endpoints[1]>>
    /\ endpoints[1].responseStatus = Num(201)
    /\ endpoints[1].responseHeaders = JSONstringify(GoodHeaders)
    /\ endpoints[1].responseBody = Str("{\"ok\":true}")
    /\ now < MaxNow

\* An id-addressed management operation is handled for the id.
ManagementStep(id) ==
    \/ GetEndpoint(id)
    \/ ListRequests(id)
    \/ UpdateResponse(id, StatusUpdate)
    \/ ClearHistory(id)

\* C18: every id-addressed management operation (fetch endpoint, list
\* requests, update response configuration, clear history) invoked with an
\* id that names no endpoint answers 404 and changes no stored state.
C18_UnknownIdNotFound ==
    [][ \A id \in EndpointIds :
          (getEndpoint(id) = <<>> /\ ManagementStep(id))
          => /\ reply'.status = 404
             /\ UNCHANGED <<endpoints, requests>> ]_vars

\* C19: in every reachable state no two registered endpoints have the same
\* slug, and no two have the same id.
C19_UniqueSlugAndId ==
    \A i, j \in 1..Len(endpoints) :
        i # j => /\ endpoints[i].uniqueSlug # endpoints[j].uniqueSlug
                 /\ endpoints[i].id # endpoints[j].id

\* One endpoint is registered, and a creation that drew a fresh id together
\* with the registered slug was refused.
C19_Witness ==
    /\ Len(endpoints) = 1
    /\ reply.route = "create" /\ reply.status = 500
    /\ reply.target # endpoints[1].id

\* A creation with a fresh id whose first drawn slug is taken, while the
\* slug the generator would yield next is free.
CollidingCreateStep(id, first, second) ==
    /\ getEndpoint(id) = <<>>
    /\ getEndpointBySlug(first) # <<>>
    /\ getEndpointBySlug(second) = <<>>
    /\ CreateEndpoint(DefaultOptions, id, first)

\* C20: when the freshly generated slug collides with an existing one,
\* create-endpoint retries with a new random slug and succeeds as soon as a
\* non-colliding slug is drawn: the endpoint is registered under that slug
\* and the call is answered 201.
C20_RetriesOnCollision ==
    [][ \A id \in EndpointIds, first \in Slugs, second \in Slugs :
          CollidingCreateStep(id, first, second)
          => /\ Len(endpoints') = Len(endpoints) + 1
             /\ endpoints'[Len(endpoints')].uniqueSlug = second
             /\ reply'.status = 201 ]_vars

----------------------------------------------------------------------------
\* A creation without options that registered an endpoint.
DefaultCreateStep ==
    /\ \E id \in EndpointIds, s \in Slugs : CreateEndpoint(DefaultOptions, id, s)
    /\ Len(endpoints') = Len(endpoints) + 1

----------------------------------------------------------------------------
\* The fields of a stored request other than processingTimeMs.
FrozenFields ==
    {"id", "endpointId", "method", "path", "timestamp", "queryParams",
     "headers", "body", "bodySize"}

\* The row of the request table with this id, if any.
StoredRequest(rows, id) ==
    IF \E i \in 1..Len(rows) : rows[i].id = id
    THEN <<rows[CHOOSE i \in 1..Len(rows) : rows[i].id = id]>>
    ELSE <<>>

\* C22: a stored request is immutable except for processingTimeMs: no step
\* changes another field of a row that stays stored, and the row an accepted
\* ingestion stores has its processingTimeMs set to the measured time by
\* the time the reply is computed, and it is never changed afterwards.
C22_FrozenAndFinalized ==
    [][ /\ \A id \in RequestIds :
              LET before == StoredRequest(requests, id)
                  after == StoredRequest(requests', id)
              IN  before # <<>> /\ after # <<>>
                    => /\ \A f \in FrozenFields : after[1][f] = before[1][f]
                       /\ before[1].processingTimeMs # Null
                            => after[1].processingTimeMs
                                 = before[1].processingTimeMs
        /\ Accepted => Captured.processingTimeMs # Null ]_vars

----------------------------------------------------------------------------
\* C23: per endpoint, records are created in arrival order with
\* non-decreasing timestamps: an accepted ingestion persists its record
\* after the records of every ingestion handled before it, which stay as
\* they were, and its timestamp is not earlier than that of any earlier
\* record of the same endpoint.
C23_ArrivalOrder ==
    [][Accepted =>
        /\ \A i \in 1..Len(requests) : requests'[i] = requests[i]
        /\ \A i \in 1..Len(requests) :
              requests[i].endpointId = Captured.endpointId
                => requests[i].timestamp <= Captured.timestamp]_vars

\* Two records of one endpoint are stored, the second one a clock tick
\* after the first.
C23_Witness ==
    /\ Len(requests) = 2
    /\ requests[1].endpointId = requests[2].endpointId
    /\ requests[1].timestamp < requests[2].timestamp

----------------------------------------------------------------------------
\* The position of a stored request in creation order.
CreationRank(id) == CHOOSE i \in 1..Len(requests) : requests[i].id = id

\* C24: the history listing of an endpoint returns only that endpoint's
\* records, most recently created first, and at most 100 of them: the
\* listing holds the min(stored, 100) most recently created records of the
\* endpoint.
C24_MostRecentFirst ==
    [][\A id \in EndpointIds :
         ListRequests(id) =>
           LET listed == reply'.body[2]
               count == IF StoredCount(id) < ListLimit THEN StoredCount(id)
                        ELSE ListLimit
           IN  /\ \A i \in 1..Len(listed) : listed[i].endpointId = id
               /\ Len(listed) = count
               /\ \A i, j \in 1..Len(listed) :
                     i < j => CreationRank(listed[i].id)
                                > CreationRank(listed[j].id)
               /\ \A k \in 1..Len(requests) :
                     /\ requests[k].endpointId = id
                     /\ \A i \in 1..Len(listed) : listed[i].id # requests[k].id
                     => \A i \in 1..Len(listed) :
                          k < CreationRank(listed[i].id)]_vars

----------------------------------------------------------------------------
\* The history of a registered endpoint is cleared.
ClearStep(id) == getEndpoint(id) # <<>> /\ ClearHistory(id)

\* C25: clearing the history of an endpoint removes the stored requests of
\* that endpoint and nothing else: afterwards every listing of the endpoint
\* is empty, the stored requests of the other endpoints and the
\* configuration of every endpoint are unchanged, and an ingestion for the
\* endpoint is answered as it was before, with its configured reply if the
\* endpoint is active.
C25_ClearsOnlyOwnHistory ==
    [][\A id \in EndpointIds :
         ClearStep(id) =>
           LET endpoint == getEndpoint(id)[1]
           IN  /\ reply'.status = 200
               /\ Listings(id)' = {<<>>}
               /\ \A other \in EndpointIds \ {id} :
                     Listings(other)' = Listings(other)
               /\ SelectSeq(requests', LAMBDA r : r.endpointId # id)
                    = SelectSeq(requests, LAMBDA r : r.endpointId # id)
               /\ endpoints' = endpoints
               /\ \A r \in RequestIds :
                     StoredRequest(requests', r) = <<>>
                       => /\ CallerReply(endpoint.uniqueSlug, r)'.status
                              = IF Admitted(<<endpoint>>)
                                THEN ConfiguredStatus(endpoint) ELSE 404
                          /\ StoredRequest(requests, r) = <<>>
                               => CallerReply(endpoint.uniqueSlug, r)'
                                    = CallerReply(endpoint.uniqueSlug, r)]_vars

\* A history was cleared while a request of another endpoint is stored.
C25_Witness ==
    /\ reply.route = "clear" /\ reply.status = 200
    /\ requests # <<>>
    /\ \A i \in 1..Len(requests) : requests[i].endpointId # reply.target

----------------------------------------------------------------------------
\* A socket of the endpoint's rooms has stopped taking events.
StalledSubscriber(endpointId) ==
    \E c \in Sockets :
        /\ sockets[c] = "stalled"
        /\ \E role \in {"dashboard", "tunnel"} :
              RoomName(role, endpointId) \in rooms[c]

\* C26: fan-out is independent per subscriber: when a subscriber of the
\* endpoint has stopped taking events, an accepted ingestion still sends
\* exactly one event of each room to every socket in that room and the
\* caller gets the reply the tables and the request determine; a socket
\* that stalls changes neither a reply nor what was sent or stored.
C26_IndependentFanOut ==
    [][ /\ \A s \in Slugs, r \in RequestIds :
              /\ Webhook(s, "POST", SmallBody, r, 1)
              /\ Accepted
              /\ StalledSubscriber(Captured.endpointId)
              => /\ reply' = CallerReply(s, r)
                 /\ \A c \in Sockets :
                       /\ Delivered(inbox'[c], "new-request", r)
                            = Delivered(inbox[c], "new-request", r)
                              + IF RoomName("dashboard", Captured.endpointId)
                                     \in rooms[c] THEN 1 ELSE 0
                       /\ Delivered(inbox'[c], "tunnel-request", r)
                            = Delivered(inbox[c], "tunnel-request", r)
                              + IF RoomName("tunnel", Captured.endpointId)
                                     \in rooms[c] THEN 1 ELSE 0
        /\ \A c \in Sockets :
              Stall(c) => UNCHANGED <<endpoints, requests, inbox, reply>>
      ]_vars

\* An ingestion was answered with the configured reply and its event was
\* sent to a responsive dashboard while another socket of the endpoint is
\* stalled.
C26_Witness ==
    /\ reply.route = "webhook" /\ reply.status = 200
    /\ sockets["c1"] = "stalled" /\ rooms["c1"] # {}
    /\ sockets["c2"] = "connected"
    /\ \E i \in 1..Len(requests) :
          /\ Delivered(inbox["c2"], "new-request", requests[i].id) = 1
          /\ Delivered(inbox["c1"], "new-request", requests[i].id)
               + Delivered(inbox["c1"], "tunnel-request", requests[i].id) >= 1

----------------------------------------------------------------------------
\* The agent settles a forward.
SettleStep(c) ==
    \E i \in 1..MaxInbox + 1, o \in Outcomes : ForwardSettled(c, i, o)

\* C27: the tunnel agent attempts each received tunnel-request at most
\* once: it never has issued more calls for a record than events for it
\* were received, handling an event issues exactly one call, and a forward
\* that settles, failed or not, is logged, issues no further call, leaves
\* the calls of the other events as they are and leaves the agent's
\* connection and registration alone.
C27_AtMostOnce ==
    [][ /\ \A c \in Sockets, id \in RequestIds :
              Calls(forwards'[c], id)
                <= Delivered(inbox'[c], "tunnel-request", id)
        /\ \A c \in Sockets :
              /\ (\E ev \in Events(c) : TunnelRequest(c, ev.payload))
                   => Len(forwards'[c]) = Len(forwards[c]) + 1
              /\ SettleStep(c)
                   => /\ Len(forwards'[c]) = Len(forwards[c])
                      /\ \A i \in 1..Len(forwards[c]) :
                            /\ forwards'[c][i].request = forwards[c][i].request
                            /\ forwards'[c][i].call = forwards[c][i].call
                            /\ forwards'[c][i].outcome # "pending"
                                 => forwards'[c][i].logged # ""
                            /\ forwards[c][i].outcome # "pending"
                                 => forwards'[c][i] = forwards[c][i]
                      /\ UNCHANGED <<sockets, rooms, inbox>> ]_vars

\* A forward failed and was logged, and the agent, still registered, then
\* handled a later event, whose forward succeeded.
C27_Witness ==
    /\ Len(forwards["c1"]) = 2
    /\ forwards["c1"][1].outcome = "refused"
    /\ forwards["c1"][1].logged = "Forward failed"
    /\ forwards["c1"][2].outcome = "ok"
    /\ forwards["c1"][2].request.id # forwards["c1"][1].request.id
    /\ sockets["c1"] = "connected"

\* C28: the outbound call of the agent carries the record's method,
\* headers, query parameters and body as the server captured them and is
\* addressed to the root path of the configured local port.
C28_CarriesRecord ==
    \A c \in Sockets : \A i \in 1..Len(forwards[c]) :
        LET request == forwards[c][i].request
            call == forwards[c][i].call
        IN  /\ call.url = <<"http://localhost:", LocalPort, "/">>
            /\ call.method = request.method
            /\ call.data = request.body
            /\ call.headers \in {request.headers, JSONparse(request.headers)}
            /\ call.params \in {request.queryParams, JSONstringify(ReqQuery),
                                ReqQuery}

----------------------------------------------------------------------------
\* A request of the key goes through the rate limited ingestion route.
LimitedStep(key) ==
    RateLimitedWebhook(key, "s1", "POST", SmallBody, "r1", 1)

\* C29 as stated: in no one-hour period are more than 100 requests of one
\* key passed on to the ingestion handler: the requests passed on in the
\* previous and the current half hour are at most 100.
C29_HundredPerHour ==
    \A k \in ClientKeys : passedOn[k][1] + passedOn[k][2] <= 100

\* The window of the key is still running.
WindowRunning(key) ==
    rateLimitStore[key] # <<>> /\ rateLimitStore[key][1].resetAt >= now

\* C29, amended: in no window of the limiter (the hour that starts with the
\* first request of the key after its previous window ended) are more than
\* 100 requests of the key passed on to the ingestion handler: a request is
\* counted in the running window or opens a window with count 1, it is
\* passed on when it is among the first 100 of its window, and otherwise it
\* is answered 429 and the handler does not run.
C29_HundredPerWindow ==
    [][\A k \in ClientKeys :
         LimitedStep(k) =>
           LET n == rateLimitStore'[k][1].count
           IN  /\ n = IF WindowRunning(k)
                      THEN rateLimitStore[k][1].count + 1 ELSE 1
               /\ rateLimitStore'[k][1].resetAt
                    = IF WindowRunning(k)
                      THEN rateLimitStore[k][1].resetAt ELSE now + WindowMs
               /\ n <= 100 => /\ passedOn'[k][2] = passedOn[k][2] + 1
                              /\ reply'.status # 429
               /\ n > 100 => /\ passedOn' = passedOn
                             /\ reply'.status = 429
                             /\ UNCHANGED <<endpoints, requests, inbox>>]_vars

\* The 101st request of a window was answered 429 after 100 were passed on.
C29_Witness ==
    /\ reply.route = "webhook" /\ reply.status = 429
    /\ rateLimitStore["ip1"] # <<>>
    /\ rateLimitStore["ip1"][1].count = 101
    /\ passedOn["ip1"][1] + passedOn["ip1"][2] >= 100

----------------------------------------------------------------------------
\* C30: in every reachable state the stored responseHeaders of an endpoint
\* is unset or the encoding of a flat string-to-string mapping.
C30_HeadersValidated ==
    \A i \in 1..Len(endpoints) :
        \/ endpoints[i].responseHeaders = Null
        \/ FlatStringMap(JSONparse(endpoints[i].responseHeaders))

----------------------------------------------------------------------------
\* C33: the record delivered in a new-request or tunnel-request event is
\* field-for-field equal to the record a history listing returns for the
\* same id, processingTimeMs included.
C33_EventEqualsListed ==
    \A c \in Sockets : \A ev \in Events(c) :
        \A listing \in Listings(ev.payload.endpointId) :
            \A i \in 1..Len(listing) :
                listing[i].id = ev.payload.id => listing[i] = ev.payload

\* C34: the stored queryParams text decodes with a single JSON decode to
\* the query mapping of the inbound request, as the stored headers text
\* decodes to the headers of the request.
C34_QueryEncodedOnce ==
    [][\A r \in RequestIds, h \in HeaderLineInputs, q \in QueryInputs :
         HandleIngestion("s1", "POST", SmallBody, r, 1, h, q) /\ Accepted
           => /\ JSONparse(Captured.headers) = IncomingHeaders(h)
              /\ JSONparse(Captured.queryParams) = q]_vars

----------------------------------------------------------------------------
\* The values a header line of the inputs may carry, and what may stand
\* before or after a value in a joined header value.
LineValues == {"v1", "v2"}

Affixes ==
    {""} \cup { ", " \o v : v \in LineValues }
         \cup { v \o ", " : v \in LineValues }

\* The value appears in the stored headers under the name.
Appears(headers, name, value) ==
    \E i \in 1..Len(headers[2]) :
        /\ headers[2][i][1] = name
        /\ \E a, b \in Affixes : headers[2][i][2][2] = a \o value \o b

\* C31: duplicate header names of an inbound request are preserved in the
\* stored record: when a request carries a header name on two lines with
\* different values, both values appear in the stored headers.
C31_DuplicatesPreserved ==
    [][\A r \in RequestIds, h \in HeaderLineInputs, q \in QueryInputs :
         HandleIngestion("s1", "POST", SmallBody, r, 1, h, q) /\ Accepted
           => \A i, j \in 1..Len(h) :
                i < j /\ h[i][1] = h[j][1] /\ h[i][2] # h[j][2]
                  => /\ Appears(JSONparse(Captured.headers), h[i][1], h[i][2])
                     /\ Appears(JSONparse(Captured.headers), h[j][1], h[j][2])
      ]_vars

----------------------------------------------------------------------------
\* C36: for every request that goes through the limiter, with n the number
\* of requests of its key counted in the current window, this one included,
\* the X-RateLimit-Remaining header is max(0, 100 - n) and never negative,
\* the request is answered 429 exactly when n exceeds 100, and the first
\* request of a key after its window has ended opens a window with count 1
\* and is passed on.
C36_RemainingAndRejection ==
    [][\A k \in ClientKeys :
         LimitedStep(k) =>
           LET n == IF WindowRunning(k)
                    THEN rateLimitStore[k][1].count + 1 ELSE 1
               header == rateLimitHeaders'[1]
           IN  /\ rateLimitStore'[k][1].count = n
               /\ header.limit = 100
               /\ header.remaining = IF 100 - n > 0 THEN 100 - n ELSE 0
               /\ header.remaining >= 0
               /\ reply'.status = 429 <=> n > 100
               /\ ~WindowRunning(k)
                    => /\ rateLimitStore'[k][1].count = 1
                       /\ reply'.status # 429
                       /\ passedOn'[k][2] = passedOn[k][2] + 1]_vars

\* A window was opened by the first request after the window before it had
\* ended, 100 of its requests were passed on, and its second request beyond
\* the limit was answered 429 with a remaining count of zero.
C36_Witness ==
    /\ rateLimitStore["ip1"] # <<>>
    /\ rateLimitStore["ip1"][1].count = 102
    /\ rateLimitStore["ip1"][1].resetAt = now + WindowMs
    /\ passedOn["ip1"][1] > 0 /\ passedOn["ip1"][2] = 100
    /\ rateLimitHeaders[1].remaining = 0
    /\ reply.status = 429

----------------------------------------------------------------------------
\* A management request for the endpoint, made by the caller: the routes
\* under /api/endpoints see the caller, the routes under /api/webhooks run
\* for whoever calls them.
ManagementRequestBy(caller, id) ==
    \/ UpdateEndpoint(caller, id)
    \/ DeleteEndpoint(caller, id)
    \/ UpdateResponse(id, StatusUpdate)
    \/ ClearHistory(id)

\* C32: for an endpoint whose userId is set, a request made by another user
\* or by an unauthenticated caller is refused and changes neither the
\* endpoint's response configuration nor its request history.
C32_OwnedEndpointProtected ==
    [][\A caller \in Callers, id \in EndpointIds :
         /\ getEndpoint(id) # <<>>
         /\ getEndpoint(id)[1].userId # Null
         /\ getEndpoint(id)[1].userId # caller
         /\ ManagementRequestBy(caller, id)
         => /\ reply'.status \in {401, 403}
            /\ UNCHANGED <<endpoints, requests>>]_vars

----------------------------------------------------------------------------
\* C38: loading an endpoint whose response headers were saved before into
\* the response form and saving the form without edits leaves the headers
\* that webhook callers receive from the endpoint unchanged.
C38_FormRoundTrip ==
    [][\A i \in 1..Len(endpoints) :
         /\ endpoints[i].responseHeaders # Null
         /\ SaveUnedited(endpoints[i].id)
         => SendConfigured(endpoints[i].uniqueSlug, endpoints'[i]).headers
              = SendConfigured(endpoints[i].uniqueSlug, endpoints[i]).headers
      ]_vars

----------------------------------------------------------------------------
\* The request list of the page: the query data, empty before the first
\* result.
RequestList == IF queryCache = <<>> THEN <<>> ELSE queryCache[1]

\* C35: in every reachable state of a dashboard page, no two entries of its
\* request list have the same request id, whatever the order in which the
\* history response and the new-request events arrive.
C35_NoDuplicateIds ==
    \A i, j \in 1..Len(RequestList) :
        RequestList[i].id = RequestList[j].id => i = j

----------------------------------------------------------------------------
\* The requests the server holds for an endpoint.
Held(endpointId) ==
    { requests[i] : i \in { j \in 1..Len(requests) :
                              requests[j].endpointId = endpointId } }

\* C39: once the history of an endpoint has been cleared on the server, the
\* request list the page computes from its next history fetch holds no
\* request captured before the clear, also when the page had received such
\* requests as live events.  A fetch made after the clear is answered from
\* the history as it then is, and every request that history lacks while
\* the page knows it was cleared: the list computed from such an answer
\* holds only requests the server holds.
C39_ClearedNotListed ==
    [][\A serverRequests \in fetches :
         /\ serverRequests \in Listings("e1")
         /\ FetchResolved(serverRequests)
         => \A i \in 1..Len(queryCache'[1]) :
               queryCache'[1][i] \in Held("e1")]_vars

----------------------------------------------------------------------------
\* The connection has sent its join message and the server has put it in
\* the room the message names.
InOwnRoom(c) ==
    /\ emitted[c] # <<>>
    /\ RoomName(emitted[c][1].role, emitted[c][1].webhookId) \in rooms[c]

\* Connection d is a later connection of the client whose connection c has
\* dropped: both sent the same join message.
Reconnected(c, d) ==
    /\ c # d
    /\ sockets[c] = "disconnected"
    /\ sockets[d] = "connected"
    /\ emitted[c] # <<>>
    /\ emitted[d] = emitted[c]

\* The event a room of the role is sent.
EventOf(role) == IF role = "dashboard" THEN "new-request" ELSE "tunnel-request"

\* C37: an agent or a page sends its join message on every connection it
\* establishes, the first and every later one: a connection that stays up
\* becomes a member of the client's room, and once a reconnected client is
\* a member again, every request captured for its endpoint is delivered to
\* its new connection.
C37_RejoinsOnReconnect ==
    /\ \A c \in Sockets :
          (sockets[c] = "connected")
             ~> (sockets[c] = "disconnected" \/ InOwnRoom(c))
    /\ [][\A c, d \in Sockets :
            /\ Reconnected(c, d)
            /\ InOwnRoom(d)
            /\ Accepted
            /\ Captured.endpointId = emitted[d][1].webhookId
            => Delivered(inbox'[d], EventOf(emitted[d][1].role), Captured.id)
                 = Delivered(inbox[d], EventOf(emitted[d][1].role),
                             Captured.id) + 1]_vars

\* The first connection of a client was sent a request and dropped; the
\* client's second connection has joined the room again and was sent a
\* request captured afterwards, which the first was not sent.
C37_Witness ==
    /\ Reconnected("c1", "c2")
    /\ InOwnRoom("c2")
    /\ Len(requests) = 2
    /\ Delivered(inbox["c1"], EventOf(emitted["c1"][1].role),
                 requests[1].id) = 1
    /\ Delivered(inbox["c2"], EventOf(emitted["c2"][1].role),
                 requests[2].id) = 1
    /\ \A ev \in Events("c1") : ev.payload.id # requests[2].id

====
